---- MODULE Spec2Model ----
(***************************************************************************)
(* Task-Management-Backend: the express application of src/index.js with   *)
(* the User model of src/unnamed/part_000 (Models/UserModel).              *)
(*                                                                         *)
(* The MongoDB collections are the state; every request is a small process *)
(* whose steps are the store calls its handler awaits.  A request occupies *)
(* a slot from its arrival until its response has been read.               *)
(***************************************************************************)
EXTENDS Integers, Sequences, FiniteSets, TLC

(* ------------------------------ bounds --------------------------------- *)
MaxUsers == 2      \* user documents ever inserted
MaxTasks == 2      \* task documents ever inserted
MaxReqs  == 2      \* requests in flight at the same time
MaxTime  == 24     \* last clock value, in hours
MaxTokens == 2     \* tokens the clients hold on to

(* --------------------------- program constants ------------------------- *)
TokenTTL == 24          \* expiresIn: '24h'
MinPasswordLen == 6     \* UserSchema.password.minlength
HalfLife == TokenTTL \div 2     \* the step of the modelled clock, in hours

Slots == 1..MaxReqs

(* ------------------------------ strings -------------------------------- *)
\* name and email are sequences of characters, so that the schema setters
\* (trim, lowercase) are computed and not assumed.
LowerChar(c) ==
  IF c = "A" THEN "a" ELSE IF c = "B" THEN "b" ELSE c

LowerCase(s) == [i \in 1..Len(s) |-> LowerChar(s[i])]

RECURSIVE TrimLeft(_)
TrimLeft(s) ==
  IF s # <<>> /\ Head(s) = " " THEN TrimLeft(Tail(s)) ELSE s

RECURSIVE TrimRight(_)
TrimRight(s) ==
  IF s # <<>> /\ s[Len(s)] = " " THEN TrimRight(SubSeq(s, 1, Len(s) - 1)) ELSE s

Trim(s) == TrimLeft(TrimRight(s))

\* UserSchema.email: trim: true, lowercase: true
NormalizeEmail(e) == LowerCase(Trim(e))

\* UserSchema.name: trim: true
NormalizeName(n) == Trim(n)

(* --------------------------- password hashing -------------------------- *)
Salts == {"s1", "s2"}

\* bcrypt.hash(password, 10): the salt is embedded in the output
bcryptHash(password, salt) == "$2a$10$" \o salt \o "$" \o password

\* a comparison whose promise is tested instead of its result
bcryptCompareNotAwaited(candidate, hash) == TRUE

\* bcrypt.compare(candidate, hash): re-hash with the salt found in the hash
bcryptCompare(candidate, hash) ==
  \E salt \in Salts : bcryptHash(candidate, salt) = hash

(* ------------------------------- tokens -------------------------------- *)
NoSecret == ""           \* process.env.JWT_SECRET is undefined
ServerSecret == "k1"
ForeignSecret == "k0"    \* a key that is not the server's

NoToken == [sub |-> 0, iat |-> 0, exp |-> 0, sig |-> <<>>]

\* HMAC over the payload: the signature binds the key and every claim
Mac(key, sub, iat, exp) == <<key, sub, iat, exp>>

\* jwt.sign({ id }, secret, { expiresIn: '24h' }); throws without a secret
jwtSign(id, secret, t) ==
  [sub |-> id, iat |-> t, exp |-> t + TokenTTL,
   sig |-> Mac(secret, id, t, t + TokenTTL)]

\* jwt.verify that still accepts a token at the instant it expires
jwtVerifyLate(token, secret, t) ==
  IF secret = NoSecret THEN "JsonWebTokenError"
  ELSE IF token.sig # Mac(secret, token.sub, token.iat, token.exp)
       THEN "JsonWebTokenError"
  ELSE IF t > token.exp THEN "TokenExpiredError"
  ELSE "ok"

\* jwt.verify(token, secret): "ok", or the error it throws
jwtVerify(token, secret, t) ==
  IF secret = NoSecret THEN "JsonWebTokenError"
  ELSE IF token.sig # Mac(secret, token.sub, token.iat, token.exp)
       THEN "JsonWebTokenError"
  ELSE IF t >= token.exp THEN "TokenExpiredError"
  ELSE "ok"

(* ------------------------------- dates --------------------------------- *)
InvalidDate == -1     \* the Invalid Date value
NoDate == 0           \* the path is not set

\* new Date(string) and the schema's cast to Date: days as yyyymmdd
ParseDate(str) ==
  IF str = "2025-01-01" THEN 20250101
  ELSE IF str = "2025-03-01" THEN 20250301
  ELSE IF str = "2025-06-01" THEN 20250601
  ELSE InvalidDate

(* ------------------------------ responses ------------------------------ *)
Resp(status, msg, token, list) ==
  [status |-> status, msg |-> msg, token |-> token, tasks |-> list]

NoResp == Resp(0, "", NoToken, <<>>)

(* -------------------------------- state -------------------------------- *)
VARIABLES
  users,        \* the User collection
  tasks,        \* the Task collection
  nextUserId,   \* next _id the User collection hands out
  nextTaskId,   \* next _id the Task collection hands out
  now,          \* wall clock, in hours
  JWT_SECRET,   \* process.env.JWT_SECRET
  issued,       \* tokens that responses have carried to clients, and for whom
  reqs          \* the requests in flight, by slot

vars == <<users, tasks, nextUserId, nextTaskId, now, JWT_SECRET, issued, reqs>>

Undefined == "<undefined>"     \* a key the JSON body or query does not have

NoTask == [_id |-> 0, title |-> "", description |-> "", status |-> "",
           priority |-> "", dueDate |-> NoDate, reminderDate |-> NoDate,
           userId |-> 0]

NoBody == [title |-> Undefined, description |-> Undefined, status |-> Undefined,
           priority |-> Undefined, dueDate |-> Undefined,
           reminderDate |-> Undefined, userId |-> 0]

NoQuery == [status |-> Undefined, priority |-> Undefined, sort |-> Undefined]

IdleReq ==
  [pc |-> "idle", route |-> "none", name |-> <<>>, email |-> <<>>,
   password |-> "", token |-> NoToken, user |-> 0, param |-> 0,
   body |-> NoBody, query |-> NoQuery, doc |-> NoTask, ops |-> <<>>,
   res |-> NoResp]

\* res.status(..).json(..): the request is answered
Answer(r, resp) == [r EXCEPT !.pc = "done", !.res = resp]

\* one more call to a store made on behalf of the request
Called(r, op) == [r EXCEPT !.ops = Append(@, op)]

Init ==
  /\ users = {}
  /\ tasks = {}
  /\ nextUserId = 1
  /\ nextTaskId = 1
  /\ now = 0
  /\ JWT_SECRET = ServerSecret
  /\ issued = {}
  /\ reqs = [s \in Slots |-> IdleReq]

(* ------------------------ the User collection -------------------------- *)
\* a lookup whose filter is not cast through the schema setters
UserFindOneExact(email) == {u \in users : u.email = email}

\* User.findOne({ email }): the filter is cast through the schema setters
UserFindOne(email) == {u \in users : u.email = NormalizeEmail(email)}

\* a lookup that is satisfied by any user document
UserFindByIdAny(id) == users

\* User.findById(id)
UserFindById(id) == {u \in users : u._id = id}

\* the document new User({ name, email, password }) builds (setters applied)
NewUser(id, name, email, password) ==
  [_id |-> id, name |-> NormalizeName(name), email |-> NormalizeEmail(email),
   password |-> password]

\* schema validation run by save(): required paths and password minlength
UserValid(doc) ==
  /\ doc.name # <<>>
  /\ doc.email # <<>>
  /\ doc.password # ""
  /\ Len(doc.password) >= MinPasswordLen

\* the collection without the unique index
UserDuplicateKeyNoIndex(doc) == FALSE

\* the unique index on email: does inserting doc raise E11000
UserDuplicateKey(doc) == \E u \in users : u.email = doc.email

\* a hook whose isModified test is inverted: a new password is left as it is
PreSaveSkipsModified(doc, salt) == doc

\* pre('save'): hash the password when it was modified (always, on insert)
PreSave(doc, salt) == [doc EXCEPT !.password = bcryptHash(doc.password, salt)]

(* --------------------------- request inputs ---------------------------- *)
Names == {<<"A">>, <<>>}
Emails == {<<"a">>, <<"A">>, <<" ", "A">>, <<"b">>, <<>>}
RegisterPasswords == {"secret1", "short", ""}
LoginPasswords == {"secret1", "wrong12", ""}

\* A response is read before the server takes its next step: reading changes
\* no store, so no behaviour of the stores is lost.
Quiet == \A q \in Slots : reqs[q].pc # "done"

\* requests are interchangeable: a new one takes the first free slot
FreeSlot(s) ==
  /\ Quiet
  /\ reqs[s].pc = "idle"
  /\ \A q \in Slots : q < s => reqs[q].pc # "idle"

\* the request in slot s resumes after the await it was suspended at
Resumes(s, pc) == Quiet /\ reqs[s].pc = pc

\* no request is suspended at pc: the requests in flight differ in the await
\* they are suspended at (two at the same await of /auth/register excepted)
NoneAt(pc) == \A q \in Slots : reqs[q].pc # pc

\* the client keeps the token; holding MaxTokens, it forgets one of them
Keep(token, id) ==
  LET entry == [token |-> token, user |-> id]
  IN  IF entry \in issued \/ Cardinality(issued) < MaxTokens
      THEN {issued \cup {entry}}
      ELSE {(issued \ {old}) \cup {entry} : old \in issued}

(* ----------------------- POST /auth/register --------------------------- *)
\* lines 51-62: input validation, then await User.findOne({ email })
RegisterFindOne(s) ==
  /\ FreeSlot(s)
  /\ nextUserId + Cardinality({q \in Slots : reqs[q].pc = "reg_save"}) <= MaxUsers
  /\ \E name \in Names, email \in Emails, password \in RegisterPasswords :
       LET r0 == [IdleReq EXCEPT !.route = "register", !.name = name,
                                 !.email = email, !.password = password]
       IN  reqs' = [reqs EXCEPT ![s] =
             IF name = <<>> \/ email = <<>> \/ password = ""
             THEN Answer(r0, Resp(400, "Please provide name, email, and password",
                                  NoToken, <<>>))
             ELSE IF UserFindOne(email) # {}
             THEN Answer(Called(r0, "User.findOne"),
                         Resp(400, "Email already in use", NoToken, <<>>))
             ELSE [Called(r0, "User.findOne") EXCEPT !.pc = "reg_save"]]
  /\ UNCHANGED <<users, tasks, nextUserId, nextTaskId, now, JWT_SECRET, issued>>

\* lines 64-92: await newUser.save() (validation, pre-save hash, insert),
\* then jwt.sign and the 201 response; any throw is answered 500
RegisterSave(s) ==
  /\ Resumes(s, "reg_save")
  /\ LET r == Called(reqs[s], "User.save")
         doc == NewUser(nextUserId, r.name, r.email, r.password)
         failed == Answer(r, Resp(500, "Server error during registration",
                                  NoToken, <<>>))
     IN  IF ~UserValid(doc) \/ UserDuplicateKey(doc)
         THEN /\ reqs' = [reqs EXCEPT ![s] = failed]
              /\ UNCHANGED <<users, nextUserId, issued>>
         ELSE \E salt \in Salts :
              /\ users' = users \cup {PreSave(doc, salt)}
              /\ nextUserId' = nextUserId + 1
              /\ IF JWT_SECRET = NoSecret
                 THEN /\ reqs' = [reqs EXCEPT ![s] = failed]
                      /\ UNCHANGED issued
                 ELSE LET token == jwtSign(doc._id, JWT_SECRET, now)
                      IN  /\ reqs' = [reqs EXCEPT ![s] =
                                Answer(r, Resp(201, "User registered successfully",
                                               token, <<>>))]
                          /\ issued' \in Keep(token, doc._id)
  /\ UNCHANGED <<tasks, nextTaskId, now, JWT_SECRET>>

(* ------------------------- POST /auth/login ---------------------------- *)
\* lines 96-132: the two awaits (findOne, comparePassword) touch no state
\* that another request can change between them, so they are one step
Login(s) ==
  /\ FreeSlot(s)
  /\ \E email \in Emails, password \in LoginPasswords :
       LET r0 == [IdleReq EXCEPT !.route = "login", !.email = email,
                                 !.password = password]
           r1 == Called(r0, "User.findOne")
           found == UserFindOne(email)
       IN  IF email = <<>> \/ password = ""
           THEN /\ reqs' = [reqs EXCEPT ![s] =
                     Answer(r0, Resp(400, "Please provide email and password",
                                     NoToken, <<>>))]
                /\ UNCHANGED issued
           ELSE IF found = {}
           THEN /\ reqs' = [reqs EXCEPT ![s] =
                     Answer(r1, Resp(401, "Invalid credentials", NoToken, <<>>))]
                /\ UNCHANGED issued
           ELSE \E user \in found :
                IF ~bcryptCompare(password, user.password)
                THEN /\ reqs' = [reqs EXCEPT ![s] =
                          Answer(r1, Resp(401, "Invalid credentials", NoToken, <<>>))]
                     /\ UNCHANGED issued
                ELSE IF JWT_SECRET = NoSecret
                THEN /\ reqs' = [reqs EXCEPT ![s] =
                          Answer(r1, Resp(500, "Server error during login",
                                          NoToken, <<>>))]
                     /\ UNCHANGED issued
                ELSE LET token == jwtSign(user._id, JWT_SECRET, now)
                     IN  /\ reqs' = [reqs EXCEPT ![s] =
                               Answer(r1, Resp(200, "Login successful", token, <<>>))]
                         /\ issued' \in Keep(token, user._id)
  /\ UNCHANGED <<users, tasks, nextUserId, nextTaskId, now, JWT_SECRET>>

(* -------------------------- authenticateToken -------------------------- *)
\* what a client can put after "Bearer": a token it was given, such a token
\* with its subject or its expiry rewritten, or one signed with another key
Rewritten(t) ==
  {[t EXCEPT !.sub = u] : u \in 1..MaxUsers} \cup {[t EXCEPT !.exp = @ + TokenTTL]}

Forged == {jwtSign(u, ForeignSecret, now) : u \in 1..MaxUsers}

Presentable ==
  {e.token : e \in issued} \cup UNION {Rewritten(e.token) : e \in issued} \cup Forged

\* the Authorization header, as the words split(' ') gives
Headers ==
  {<<>>, <<"Bearer">>} \cup {<<"Bearer", t>> : t \in Presentable}

\* authHeader && authHeader.split(' ')[1]
HeaderToken(h) == IF Len(h) >= 2 THEN h[2] ELSE NoToken

\* the middleware without the user lookup: next() right after jwt.verify
authenticateTokenNoLookup(token) ==
  LET r0 == [IdleReq EXCEPT !.route = "tasks", !.token = token]
  IN  IF token = NoToken
      THEN Answer(r0, Resp(401, "Access denied. No token provided.", NoToken, <<>>))
      ELSE IF jwtVerify(token, JWT_SECRET, now) # "ok"
      THEN Answer(r0, Resp(400, "Invalid or expired token.", NoToken, <<>>))
      ELSE [r0 EXCEPT !.pc = "handler", !.user = token.sub]

\* lines 24-46: the middleware in front of every /tasks route, for a request
\* whose header gave this token; next() leaves the request at its handler
authenticateToken(token) ==
  LET r0 == [IdleReq EXCEPT !.route = "tasks", !.token = token]
      r1 == Called(r0, "User.findById")
  IN  IF token = NoToken
      THEN Answer(r0, Resp(401, "Access denied. No token provided.", NoToken, <<>>))
      ELSE IF jwtVerify(token, JWT_SECRET, now) # "ok"
      THEN Answer(r0, Resp(400, "Invalid or expired token.", NoToken, <<>>))
      ELSE IF UserFindById(token.sub) = {}
      THEN Answer(r1, Resp(401, "Invalid token. User not found.", NoToken, <<>>))
      ELSE [r1 EXCEPT !.pc = "handler", !.user = token.sub]

Guard(s) ==
  /\ FreeSlot(s)
  /\ NoneAt("handler")
  /\ \E header \in Headers :
       reqs' = [reqs EXCEPT ![s] = authenticateToken(HeaderToken(header))]
  /\ UNCHANGED <<users, tasks, nextUserId, nextTaskId, now, JWT_SECRET, issued>>

(* --------------------------- the Task collection ----------------------- *)
BadId == -1      \* a path parameter that is not an ObjectId: the cast throws
Params == (1..MaxTasks) \cup {BadId}

Statuses == {"pending", "in-progress", "completed"}
Priorities == {"low", "medium", "high"}

\* validation of Models/TaskModel: required paths, enums, dates that cast
TaskValid(doc) ==
  /\ doc.title # ""
  /\ doc.description # ""
  /\ doc.status \in Statuses
  /\ doc.priority \in Priorities
  /\ doc.dueDate \notin {InvalidDate, NoDate}
  /\ doc.reminderDate # InvalidDate

\* a lookup by _id alone
TaskFindOneAnyOwner(store, id, userId) == {t \in store : t._id = id}

\* Task.findOne({ _id, userId }) on the collection
TaskFindOne(store, id, userId) == {t \in store : t._id = id /\ t.userId = userId}

\* a JavaScript falsy value among those a body or a query can carry
Falsy(v) == v = Undefined \/ v = ""

\* what a handler step leaves: the request, the collection, the next _id
Out(r, store, next) == [req |-> r, tasks |-> store, nextTaskId |-> next]

\* the step of the request in slot s has one of these outcomes
Handle(s, outcomes) ==
  /\ \E o \in outcomes :
       /\ reqs' = [reqs EXCEPT ![s] = o.req]
       /\ tasks' = o.tasks
       /\ nextTaskId' = o.nextTaskId
  /\ UNCHANGED <<users, nextUserId, now, JWT_SECRET, issued>>

(* ----------------------------- POST /tasks ----------------------------- *)
CreateBase ==
  [NoBody EXCEPT !.title = "t1", !.description = "d1", !.dueDate = "2025-01-01"]

CreateBodies ==
  { CreateBase,
    [CreateBase EXCEPT !.title = "t2", !.description = "d2",
                       !.status = "completed", !.priority = "high",
                       !.dueDate = "2025-06-01", !.userId = 2],
    [CreateBase EXCEPT !.title = Undefined],
    [CreateBase EXCEPT !.description = ""],
    [CreateBase EXCEPT !.dueDate = Undefined],
    [CreateBase EXCEPT !.status = "bogus"] }

\* a constructor that ignores the status and the priority of the body
NewTaskAlwaysDefaults(id, body, userId) ==
  [_id |-> id, title |-> body.title, description |-> body.description,
   status |-> "pending", priority |-> "medium",
   dueDate |-> ParseDate(body.dueDate), reminderDate |-> NoDate,
   userId |-> userId]

\* a constructor that takes the owner from the body when the body names one
NewTaskOwnerFromBody(id, body, userId) ==
  [_id |-> id, title |-> body.title, description |-> body.description,
   status |-> IF Falsy(body.status) THEN "pending" ELSE body.status,
   priority |-> IF Falsy(body.priority) THEN "medium" ELSE body.priority,
   dueDate |-> ParseDate(body.dueDate), reminderDate |-> NoDate,
   userId |-> IF body.userId # 0 THEN body.userId ELSE userId]

\* lines 145-152: new Task({ ... })
NewTask(id, body, userId) ==
  [_id |-> id, title |-> body.title, description |-> body.description,
   status |-> IF Falsy(body.status) THEN "pending" ELSE body.status,
   priority |-> IF Falsy(body.priority) THEN "medium" ELSE body.priority,
   dueDate |-> ParseDate(body.dueDate), reminderDate |-> NoDate,
   userId |-> userId]

\* lines 136-160
CreateTaskOutcomes(store, next, r, body) ==
  LET r0 == [r EXCEPT !.route = "create", !.body = body]
      r1 == Called(r0, "Task.save")
      doc == NewTask(next, body, r0.user)
  IN  IF Falsy(body.title) \/ Falsy(body.description) \/ Falsy(body.dueDate)
      THEN {Out(Answer(r0, Resp(400, "Missing required fields", NoToken, <<>>)),
                store, next)}
      ELSE IF ~TaskValid(doc)
      THEN {Out(Answer(r1, Resp(500, "Error creating task", NoToken, <<>>)),
                store, next)}
      ELSE {Out(Answer(r1, Resp(201, "", NoToken, <<doc>>)),
                store \cup {doc}, next + 1)}

CreateTask(s) ==
  /\ Resumes(s, "handler")
  /\ nextTaskId <= MaxTasks
  /\ \E body \in CreateBodies :
       Handle(s, CreateTaskOutcomes(tasks, nextTaskId, reqs[s], body))

(* ------------------------------ GET /tasks ----------------------------- *)
Queries ==
  { NoQuery,
    [NoQuery EXCEPT !.sort = "asc", !.status = "completed"],
    [NoQuery EXCEPT !.sort = "desc"],
    [NoQuery EXCEPT !.sort = "up", !.priority = "high"],
    [NoQuery EXCEPT !.status = "bogus", !.priority = ""] }

\* lines 168-172: the documents the filter { userId, status?, priority? } matches
ListFilter(store, query, userId) ==
  {t \in store :
     /\ t.userId = userId
     /\ (~Falsy(query.status) => t.status = query.status)
     /\ (~Falsy(query.priority) => t.priority = query.priority)}

\* sort === 'asc' ? 1 : -1
SortDirectionDescByDefault(sort) == IF sort = "asc" THEN 1 ELSE -1

\* line 176: sort === 'desc' ? -1 : 1
SortDirection(sort) == IF sort = "desc" THEN -1 ELSE 1

\* .sort({ dueDate: dir }): every order of the set that the key allows
Sorted(set, dir) ==
  {list \in [1..Cardinality(set) -> set] :
     /\ \A i, j \in DOMAIN list : i # j => list[i] # list[j]
     /\ \A i, j \in DOMAIN list :
          i < j => dir * list[i].dueDate <= dir * list[j].dueDate}

\* lines 163-184
ListTasksOutcomes(store, next, r, query) ==
  LET r1 == [Called(r, "Task.find") EXCEPT !.route = "list", !.query = query]
  IN  {Out(Answer(r1, Resp(200, "", NoToken, list)), store, next) :
         list \in Sorted(ListFilter(store, query, r.user), SortDirection(query.sort))}

ListTasks(s) ==
  /\ Resumes(s, "handler")
  /\ \E query \in Queries :
       Handle(s, ListTasksOutcomes(tasks, nextTaskId, reqs[s], query))

(* --------------------------- GET /tasks/:id ---------------------------- *)
\* a handler that looks the task up by _id and then checks its owner
GetTaskOutcomesForbidden(store, next, r, param) ==
  LET r1 == [Called(r, "Task.findOne") EXCEPT !.route = "get", !.param = param]
      found == {t \in store : t._id = param}
  IN  IF param = BadId
      THEN {Out(Answer(r1, Resp(500, "Error fetching task", NoToken, <<>>)),
                store, next)}
      ELSE IF found = {}
      THEN {Out(Answer(r1, Resp(404, "Task not found", NoToken, <<>>)),
                store, next)}
      ELSE {Out(Answer(r1, IF task.userId = r.user
                           THEN Resp(200, "", NoToken, <<task>>)
                           ELSE Resp(403, "Forbidden", NoToken, <<>>)),
                store, next) : task \in found}

\* lines 187-203
GetTaskOutcomes(store, next, r, param) ==
  LET r1 == [Called(r, "Task.findOne") EXCEPT !.route = "get", !.param = param]
      found == TaskFindOne(store, param, r.user)
  IN  IF param = BadId
      THEN {Out(Answer(r1, Resp(500, "Error fetching task", NoToken, <<>>)),
                store, next)}
      ELSE IF found = {}
      THEN {Out(Answer(r1, Resp(404, "Task not found", NoToken, <<>>)),
                store, next)}
      ELSE {Out(Answer(r1, Resp(200, "", NoToken, <<task>>)), store, next) :
              task \in found}

GetTask(s) ==
  /\ Resumes(s, "handler")
  /\ \E param \in Params :
       Handle(s, GetTaskOutcomes(tasks, nextTaskId, reqs[s], param))

(* --------------------------- PUT /tasks/:id ---------------------------- *)
UpdateBodies ==
  { NoBody,
    [NoBody EXCEPT !.status = "completed"],
    [NoBody EXCEPT !.title = "t2", !.description = "d2", !.status = "completed",
                   !.priority = "high", !.dueDate = "2025-06-01", !.userId = 2,
                   !.reminderDate = "2025-03-01"],
    [NoBody EXCEPT !.status = "bogus"] }

\* the requests tried: every task id with the bodies that change something,
\* one task id with the others, and an id that is no ObjectId
UpdateRequests ==
  {<<p, b>> : p \in 1..MaxTasks, b \in {c \in UpdateBodies : c.status = "completed"}}
    \cup {<<1, b>> : b \in UpdateBodies}
    \cup {<<BadId, NoBody>>}

\* an update that $sets every key of the update document, undefined or not
ApplyUpdateSetsUndefined(t, body) ==
  [t EXCEPT
     !.title = IF body.title = Undefined THEN "" ELSE body.title,
     !.description = IF body.description = Undefined THEN "" ELSE body.description,
     !.status = IF body.status = Undefined THEN "" ELSE body.status,
     !.priority = IF body.priority = Undefined THEN "" ELSE body.priority,
     !.dueDate = IF body.dueDate = Undefined THEN NoDate ELSE ParseDate(body.dueDate)]

\* lines 215-221: the update document { title, description, status, priority,
\* dueDate }; keys whose value is undefined are stripped by the cast, the
\* others are cast by the schema and $set
ApplyUpdate(t, body) ==
  [t EXCEPT
     !.title = IF body.title = Undefined THEN @ ELSE body.title,
     !.description = IF body.description = Undefined THEN @ ELSE body.description,
     !.status = IF body.status = Undefined THEN @ ELSE body.status,
     !.priority = IF body.priority = Undefined THEN @ ELSE body.priority,
     !.dueDate = IF body.dueDate = Undefined THEN @ ELSE ParseDate(body.dueDate)]

\* runValidators: true: the validators of the paths the update sets
UpdateValid(body) ==
  /\ body.title # ""
  /\ body.description # ""
  /\ body.status # Undefined => body.status \in Statuses
  /\ body.priority # Undefined => body.priority \in Priorities
  /\ body.dueDate # Undefined => ParseDate(body.dueDate) # InvalidDate

\* lines 206-237: Task.findOneAndUpdate(filter, update, { new, runValidators });
\* the casts and the validators run before the collection is asked
UpdateTaskOutcomes(store, next, r, param, body) ==
  LET r1 == [Called(r, "Task.findOneAndUpdate")
               EXCEPT !.route = "update", !.param = param, !.body = body]
      found == TaskFindOne(store, param, r.user)
  IN  IF param = BadId \/ ~UpdateValid(body)
      THEN {Out(Answer(r1, Resp(500, "Error updating task", NoToken, <<>>)),
                store, next)}
      ELSE IF found = {}
      THEN {Out(Answer(r1, Resp(404, "Task not found", NoToken, <<>>)),
                store, next)}
      ELSE {Out(Answer(r1, Resp(200, "", NoToken, <<ApplyUpdate(t, body)>>)),
                (store \ {t}) \cup {ApplyUpdate(t, body)}, next) : t \in found}

UpdateTask(s) ==
  /\ Resumes(s, "handler")
  /\ \E request \in UpdateRequests :
       Handle(s, UpdateTaskOutcomes(tasks, nextTaskId, reqs[s],
                                    request[1], request[2]))

(* -------------------------- DELETE /tasks/:id -------------------------- *)
\* a handler that does not look at what findOneAndDelete returned
DeleteTaskOutcomesUnchecked(store, next, r, param) ==
  LET r1 == [Called(r, "Task.findOneAndDelete")
               EXCEPT !.route = "delete", !.param = param]
      found == TaskFindOne(store, param, r.user)
  IN  IF param = BadId
      THEN {Out(Answer(r1, Resp(500, "Error deleting task", NoToken, <<>>)),
                store, next)}
      ELSE {Out(Answer(r1, Resp(200, "Task deleted successfully", NoToken, <<>>)),
                store \ found, next)}

\* lines 240-256: Task.findOneAndDelete({ _id, userId })
DeleteTaskOutcomes(store, next, r, param) ==
  LET r1 == [Called(r, "Task.findOneAndDelete")
               EXCEPT !.route = "delete", !.param = param]
      found == TaskFindOne(store, param, r.user)
  IN  IF param = BadId
      THEN {Out(Answer(r1, Resp(500, "Error deleting task", NoToken, <<>>)),
                store, next)}
      ELSE IF found = {}
      THEN {Out(Answer(r1, Resp(404, "Task not found", NoToken, <<>>)),
                store, next)}
      ELSE {Out(Answer(r1, Resp(200, "Task deleted successfully", NoToken, <<>>)),
                store \ {t}, next) : t \in found}

DeleteTask(s) ==
  /\ Resumes(s, "handler")
  /\ \E param \in Params :
       Handle(s, DeleteTaskOutcomes(tasks, nextTaskId, reqs[s], param))

(* ----------------------- POST /tasks/:id/reminder ---------------------- *)
ReminderDates == {Undefined, "2025-03-01", "not-a-date"}

\* the requests tried: the first task id with every date, and an id that is
\* no ObjectId
ReminderRequests ==
  {<<1, d>> : d \in ReminderDates} \cup {<<BadId, "2025-03-01">>}

\* lines 261-276: validation, await Task.findOne, then the assignment
\* task.reminderDate = new Date(reminderDate) on the loaded document
ReminderFindOneOutcomes(store, next, r, param, reminderDate) ==
  LET r0 == [r EXCEPT !.route = "reminder", !.param = param,
                      !.body = [NoBody EXCEPT !.reminderDate = reminderDate]]
      r1 == Called(r0, "Task.findOne")
      found == TaskFindOne(store, param, r0.user)
  IN  IF Falsy(reminderDate)
      THEN {Out(Answer(r0, Resp(400, "Missing reminder date", NoToken, <<>>)),
                store, next)}
      ELSE IF param = BadId
      THEN {Out(Answer(r1, Resp(500, "Error setting reminder", NoToken, <<>>)),
                store, next)}
      ELSE IF found = {}
      THEN {Out(Answer(r1, Resp(404, "Task not found", NoToken, <<>>)),
                store, next)}
      ELSE {Out([r1 EXCEPT !.pc = "rem_save",
                   !.doc = [t EXCEPT !.reminderDate = ParseDate(reminderDate)]],
                store, next) : t \in found}

ReminderFindOne(s) ==
  /\ Resumes(s, "handler")
  /\ NoneAt("rem_save")
  /\ \E request \in ReminderRequests :
       Handle(s, ReminderFindOneOutcomes(tasks, nextTaskId, reqs[s],
                                         request[1], request[2]))

\* a save that writes the whole loaded document back, inserting it when the
\* collection has none with that _id
ReminderSaveOutcomesWholeDoc(store, next, r) ==
  LET r1 == Called(r, "Task.save")
      stored == {t \in store : t._id = r.doc._id}
  IN  IF ~TaskValid(r.doc)
      THEN {Out(Answer(r1, Resp(500, "Error setting reminder", NoToken, <<>>)),
                store, next)}
      ELSE {Out(Answer(r1, Resp(200, "Reminder set successfully", NoToken,
                                <<r.doc>>)),
                (store \ stored) \cup {r.doc}, next)}

\* line 277: await task.save() validates the document and $sets the one
\* modified path, reminderDate, on the stored document with that _id; it
\* throws when validation fails or when no stored document has that _id
ReminderSaveOutcomes(store, next, r) ==
  LET r1 == Called(r, "Task.save")
      stored == {t \in store : t._id = r.doc._id}
  IN  IF ~TaskValid(r.doc) \/ stored = {}
      THEN {Out(Answer(r1, Resp(500, "Error setting reminder", NoToken, <<>>)),
                store, next)}
      ELSE {Out(Answer(r1, Resp(200, "Reminder set successfully", NoToken,
                                <<r.doc>>)),
                (store \ stored) \cup
                  {[t EXCEPT !.reminderDate = r.doc.reminderDate] : t \in stored},
                next)}

ReminderSave(s) ==
  /\ Resumes(s, "rem_save")
  /\ Handle(s, ReminderSaveOutcomes(tasks, nextTaskId, reqs[s]))

(* ------------------------------ environment ---------------------------- *)
\* the client has read the response; the slot is free for the next request
Release(s) ==
  /\ reqs[s].pc = "done"
  /\ reqs' = [reqs EXCEPT ![s] = IdleReq]
  /\ UNCHANGED <<users, tasks, nextUserId, nextTaskId, now, JWT_SECRET, issued>>

\* a user document is removed from the collection (no route of the
\* application does it; the guard looks the user up because it can happen)
DropUser ==
  /\ \E u \in users : users' = users \ {u}
  /\ UNCHANGED <<tasks, nextUserId, nextTaskId, now, JWT_SECRET, issued, reqs>>

\* the store is unreachable while a request awaits it: the awaited call
\* rejects.  Lines 32-45: jwt.verify has passed, User.findById throws inside
\* the same try, and the catch answers as for a bad token
GuardStoreFails(s) ==
  /\ FreeSlot(s)
  /\ \E header \in Headers :
       LET token == HeaderToken(header)
           r0 == [IdleReq EXCEPT !.route = "tasks", !.token = token]
       IN  /\ token # NoToken
           /\ jwtVerify(token, JWT_SECRET, now) = "ok"
           /\ reqs' = [reqs EXCEPT ![s] =
                 Answer(Called(r0, "User.findById throws"),
                        Resp(400, "Invalid or expired token.", NoToken, <<>>))]
  /\ UNCHANGED <<users, tasks, nextUserId, nextTaskId, now, JWT_SECRET, issued>>

\* lines 105 and 126-131: User.findOne throws in login and the catch of the
\* handler answers 500
LoginStoreFails(s) ==
  /\ FreeSlot(s)
  /\ \E email \in Emails \ {<<>>}, password \in LoginPasswords \ {""} :
       LET r0 == [IdleReq EXCEPT !.route = "login", !.email = email,
                                 !.password = password]
       IN  reqs' = [reqs EXCEPT ![s] =
             Answer(Called(r0, "User.findOne throws"),
                    Resp(500, "Server error during login", NoToken, <<>>))]
  /\ UNCHANGED <<users, tasks, nextUserId, nextTaskId, now, JWT_SECRET, issued>>

\* time passes
Tick ==
  /\ now + HalfLife <= MaxTime
  /\ now' = now + HalfLife
  /\ UNCHANGED <<users, tasks, nextUserId, nextTaskId, JWT_SECRET, issued, reqs>>

(* ---------------------------- specifications --------------------------- *)
\* registration, login and the guard, from the empty stores
NextAuth ==
  \/ \E s \in Slots : RegisterFindOne(s)
  \/ \E s \in Slots : RegisterSave(s)
  \/ \E s \in Slots : Login(s)
  \/ \E s \in Slots : Guard(s)
  \/ \E s \in Slots : GetTask(s)
  \/ \E s \in Slots : Release(s)
  \/ Tick

SpecAuth == Init /\ [][NextAuth]_vars

\* the task routes, for two users who have registered and hold their tokens
SeedUser(id, email) == PreSave(NewUser(id, <<"A">>, email, "secret1"), "s1")

SeedToken(id) == [token |-> jwtSign(id, ServerSecret, 0), user |-> id]

InitTasks ==
  /\ users = {SeedUser(1, <<"a">>), SeedUser(2, <<"b">>)}
  /\ tasks = {}
  /\ nextUserId = 3
  /\ nextTaskId = 1
  /\ now = 0
  /\ JWT_SECRET = ServerSecret
  /\ issued = {SeedToken(1), SeedToken(2)}
  /\ reqs = [s \in Slots |-> IdleReq]

NextTasks ==
  \/ \E s \in Slots : Guard(s)
  \/ \E s \in Slots : CreateTask(s)
  \/ \E s \in Slots : ListTasks(s)
  \/ \E s \in Slots : GetTask(s)
  \/ \E s \in Slots : UpdateTask(s)
  \/ \E s \in Slots : DeleteTask(s)
  \/ \E s \in Slots : ReminderFindOne(s)
  \/ \E s \in Slots : ReminderSave(s)
  \/ \E s \in Slots : Release(s)

SpecTasks == InitTasks /\ [][NextTasks]_vars

\* the same, in any environment: the process may have been started without
\* JWT_SECRET, user documents may disappear from the collection, and the
\* store may be unreachable when a request awaits it
InitEnv ==
  /\ users = {}
  /\ tasks = {}
  /\ nextUserId = 1
  /\ nextTaskId = 1
  /\ now = 0
  /\ JWT_SECRET \in {NoSecret, ServerSecret}
  /\ issued = {}
  /\ reqs = [s \in Slots |-> IdleReq]

NextEnv ==
  \/ NextAuth
  \/ DropUser
  \/ \E s \in Slots : GuardStoreFails(s)
  \/ \E s \in Slots : LoginStoreFails(s)

SpecEnv == InitEnv /\ [][NextEnv]_vars

\* the whole application
Next ==
  \/ NextAuth
  \/ NextTasks

Spec == Init /\ [][Next]_vars

(* ------------------------------- properties ---------------------------- *)
\* a register request whose name, email and password pass the schema
WellFormedRegister(r) ==
  /\ r.route = "register"
  /\ UserValid(NewUser(0, r.name, r.email, r.password))

\* the user document that holds the (normalized) email of request r
HoldsEmail(r) == {u \in users : u.email = NormalizeEmail(r.email)}

\* C1: of the register requests with one normalized email, one is answered
\* 201 and every other one is answered 400 'Email already in use': once a
\* user holds the email, a well-formed register request for it that has been
\* answered was answered with one of these two, and never anything else.
C1_OneWinnerOthersDuplicateEmail ==
  \A s \in Slots :
    (reqs[s].pc = "done" /\ WellFormedRegister(reqs[s]) /\ HoldsEmail(reqs[s]) # {})
      => \/ reqs[s].res.status = 201
         \/ reqs[s].res = Resp(400, "Email already in use", NoToken, <<>>)

\* the request in slot s takes a step of its route handler
HandlerStep(s) ==
  /\ reqs[s].pc \in {"handler", "rem_save"}
  /\ reqs'[s] # reqs[s]

ByIdRoutes == {"get", "update", "delete", "reminder"}

\* the by-id request r passes the checks its handler makes before the lookup
WellFormedById(r) ==
  /\ r.route \in ByIdRoutes
  /\ r.param # BadId
  /\ r.route = "update" => UpdateValid(r.body)
  /\ r.route = "reminder" => ~Falsy(r.body.reminderDate)

\* C2: a step taken for caller B on any task route leaves every task of
\* another owner in the collection as it was and returns none of them, and a
\* by-id request of B that names another owner's task is answered 404
\* 'Task not found' (never a success, never 403).
C2_OtherOwnersTasksUntouched ==
  [][\A s \in Slots :
       HandlerStep(s) =>
         LET caller == reqs[s].user
             foreign == {t \in tasks : t.userId # caller}
             r2 == reqs'[s]
         IN  /\ foreign \subseteq tasks'
             /\ \A i \in DOMAIN r2.res.tasks :
                  r2.res.tasks[i].userId = caller /\ r2.res.tasks[i] \notin foreign
             /\ r2.doc.userId \in {0, caller}
             /\ (r2.route \in ByIdRoutes /\ \E t \in foreign : t._id = r2.param) =>
                  /\ r2.pc = "done"
                  /\ r2.res.status \notin {200, 201, 403}
                  /\ WellFormedById(r2) =>
                       r2.res = Resp(404, "Task not found", NoToken, <<>>)]_vars

\* C2 witness: GET /tasks/:id for another owner's task has been answered 404
C2_Witness ==
  \E s \in Slots :
    /\ reqs[s].pc = "done"
    /\ reqs[s].route = "get"
    /\ reqs[s].res.status = 404
    /\ \E t \in tasks : t._id = reqs[s].param /\ t.userId # reqs[s].user

\* what the step of slot s would have left, had the collection held only the
\* caller's own tasks
PurgedOutcomes(s) ==
  LET r == reqs[s]
      r2 == reqs'[s]
      own == {t \in tasks : t.userId = r.user}
  IN  CASE r2.route = "create" -> CreateTaskOutcomes(own, nextTaskId, r, r2.body)
        [] r2.route = "list" -> ListTasksOutcomes(own, nextTaskId, r, r2.query)
        [] r2.route = "get" -> GetTaskOutcomes(own, nextTaskId, r, r2.param)
        [] r2.route = "update" ->
             UpdateTaskOutcomes(own, nextTaskId, r, r2.param, r2.body)
        [] r2.route = "delete" -> DeleteTaskOutcomes(own, nextTaskId, r, r2.param)
        [] r2.route = "reminder" /\ r.pc = "handler" ->
             ReminderFindOneOutcomes(own, nextTaskId, r, r2.param,
                                     r2.body.reminderDate)
        [] r2.route = "reminder" /\ r.pc = "rem_save" ->
             ReminderSaveOutcomes(own, nextTaskId, r)
        [] OTHER -> {}

\* C3: what a caller is answered (and where its request stands) after a step
\* on a task route is what the same step gives on the collection without the
\* tasks of the other users: an id that another user owns is answered as an
\* id that does not exist.
C3_AnswersIgnoreOtherUsersTasks ==
  [][\A s \in Slots :
       HandlerStep(s) => \E o \in PurgedOutcomes(s) : o.req = reqs'[s]]_vars

\* C3 witness: an update or a delete of another owner's task was answered as
\* for a missing id while that task is in the collection
C3_Witness ==
  \E s \in Slots :
    /\ reqs[s].pc = "done"
    /\ reqs[s].route \in {"update", "delete"}
    /\ reqs[s].res = Resp(404, "Task not found", NoToken, <<>>)
    /\ \E t \in tasks : t._id = reqs[s].param /\ t.userId # reqs[s].user

IssuedTokens == {e.token : e \in issued}

\* the guard admits the request that arrives in slot s
Admits(s) == reqs[s].pc = "idle" /\ reqs'[s].pc = "handler"

\* C4: when the guard admits a request that carries a token issued by
\* register or login, the identity put on the request is the user the token
\* was issued for, and the clock is before issuance + 24 hours.
C4_IssuedTokenIdentityAndExpiry ==
  [][\A s \in Slots :
       Admits(s) =>
         \A e \in issued :
           e.token = reqs'[s].token =>
             /\ reqs'[s].user = e.user
             /\ now < e.token.iat + TokenTTL]_vars

\* C4 witness: a request carrying an issued token is admitted as its user
\* some time after issuance, while another user exists
C4_Witness ==
  \E s \in Slots :
    /\ reqs[s].pc = "handler"
    /\ [token |-> reqs[s].token, user |-> reqs[s].user] \in issued
    /\ now > reqs[s].token.iat
    /\ \E u \in users : u._id # reqs[s].user

\* the guard handles the request that arrives in slot s
GuardStep(s) == reqs[s].pc = "idle" /\ reqs'[s].route = "tasks"

\* C5: the guard admits a request only if its token is signed with the
\* secret, is not expired and names a user in the collection; a token whose
\* subject is not in the collection is rejected and no handler runs.
C5_GuardAdmitsOnlyValidTokens ==
  [][\A s \in Slots :
       GuardStep(s) =>
         LET r2 == reqs'[s]
             t == r2.token
         IN  /\ r2.pc = "handler" =>
                  /\ JWT_SECRET # NoSecret
                  /\ t.sig = Mac(JWT_SECRET, t.sub, t.iat, t.exp)
                  /\ now < t.exp
                  /\ \E u \in users : u._id = t.sub
                  /\ r2.user = t.sub
             /\ (t # NoToken /\ ~ \E u \in users : u._id = t.sub) =>
                  /\ r2.pc = "done"
                  /\ r2.res.status \in {400, 401}
                  /\ r2.user = 0]_vars

\* C5 witness: a signed, unexpired token whose user is gone was rejected
C5_Witness ==
  \E s \in Slots :
    /\ reqs[s].pc = "done"
    /\ reqs[s].res = Resp(401, "Invalid token. User not found.", NoToken, <<>>)
    /\ reqs[s].token \in IssuedTokens
    /\ now < reqs[s].token.exp

\* C6: the User collection never holds two documents whose emails are equal
\* after normalization (trim, lower case).
C6_OneUserPerEmail ==
  \A u, v \in users :
    NormalizeEmail(u.email) = NormalizeEmail(v.email) => u = v

\* C6 witness: a registration passed the findOne check, lost the race and
\* had its save refused while another document holds its email
C6_Witness ==
  \E s \in Slots :
    /\ reqs[s].pc = "done"
    /\ WellFormedRegister(reqs[s])
    /\ reqs[s].ops = <<"User.findOne", "User.save">>
    /\ reqs[s].res.status = 500
    /\ HoldsEmail(reqs[s]) # {}

TaskOps ==
  {"Task.save", "Task.find", "Task.findOne", "Task.findOneAndUpdate",
   "Task.findOneAndDelete"}

\* C7: in the calls a protected request has made, every call to the Task
\* collection comes after User.findById of a guard that went on to admit the
\* request; a request without a token is answered 401 having called no store.
C7_GuardCompletesBeforeTaskStore ==
  \A s \in Slots :
    LET r == reqs[s]
    IN  /\ (\E i \in DOMAIN r.ops : r.ops[i] \in TaskOps) =>
             /\ r.ops[1] = "User.findById"
             /\ r.user # 0
             /\ UserFindById(r.user) # {}
             /\ \A i \in DOMAIN r.ops : i > 1 => r.ops[i] \in TaskOps
        /\ (r.route # "none" /\ r.route \notin {"register", "login"}
              /\ r.token = NoToken) =>
             /\ r.pc = "done"
             /\ r.res = Resp(401, "Access denied. No token provided.", NoToken, <<>>)
             /\ r.ops = <<>>

\* C7 witness: a reminder request went through the guard, findOne and save
C7_Witness ==
  \E s \in Slots :
    reqs[s].ops = <<"User.findById", "Task.findOne", "Task.save">>

\* C8: a request that is answered 400, 401, 404 or 500 has left the User and
\* the Task collection as they were.
C8_FailureLeavesStoresUnchanged ==
  [][\A s \in Slots :
       (reqs[s].pc # "done" /\ reqs'[s].pc = "done"
          /\ reqs'[s].res.status \in {400, 401, 404, 500})
         => users' = users /\ tasks' = tasks]_vars

UpdatableStrings == {"title", "description", "status", "priority"}

Range(list) == {list[i] : i \in DOMAIN list}

\* C10: GET /tasks is answered 200 with exactly the caller's tasks whose
\* status and priority equal the filters given (an empty filter is no
\* filter), each once, by ascending dueDate when sort is omitted or 'asc'
\* and by descending dueDate when it is 'desc'.
C10_ListFiltersAndSorts ==
  \A s \in Slots :
    (reqs[s].pc = "done" /\ reqs[s].route = "list") =>
      LET r == reqs[s]
          list == r.res.tasks
      IN  /\ r.res.status = 200
          /\ Range(list) =
               {t \in tasks :
                  /\ t.userId = r.user
                  /\ r.query.status \notin {Undefined, ""} => t.status = r.query.status
                  /\ r.query.priority \notin {Undefined, ""} =>
                       t.priority = r.query.priority}
          /\ Len(list) = Cardinality(Range(list))
          /\ r.query.sort \in {Undefined, "asc"} =>
               \A i, j \in DOMAIN list : i < j => list[i].dueDate <= list[j].dueDate
          /\ r.query.sort = "desc" =>
               \A i, j \in DOMAIN list : i < j => list[i].dueDate >= list[j].dueDate

\* C10 witness: a list of two tasks with different due dates, latest first
C10_Witness ==
  \E s \in Slots :
    /\ reqs[s].pc = "done"
    /\ reqs[s].route = "list"
    /\ reqs[s].query.sort = "desc"
    /\ Len(reqs[s].res.tasks) = 2
    /\ reqs[s].res.tasks[1].dueDate > reqs[s].res.tasks[2].dueDate

\* the task ids the collection has handed out
HandedOut == 1..(nextTaskId - 1)

\* no document of the collection has this _id
Absent(store, id) == \A t \in store : t._id # id

\* C11: a DELETE /tasks/:id whose id (an ObjectId) names no task of the
\* caller is answered 404 'Task not found' and leaves the Task collection as
\* it was, in whatever state it is made, so also when it is repeated; a DELETE
\* answered 200 has removed the task, and an id that was handed out and is
\* gone from the collection stays gone, so that every later DELETE of it is
\* such a 404.
C11_DeleteOfMissingIsNotFound ==
  [][/\ \A s \in Slots :
          (HandlerStep(s) /\ reqs'[s].route = "delete" /\ reqs'[s].param # BadId) =>
            LET r2 == reqs'[s]
                own == TaskFindOne(tasks, r2.param, reqs[s].user)
            IN  /\ own = {} =>
                     /\ r2.res = Resp(404, "Task not found", NoToken, <<>>)
                     /\ tasks' = tasks
                /\ own # {} =>
                     /\ r2.res.status = 200
                     /\ tasks' = tasks \ own
                     /\ Absent(tasks', r2.param)
     /\ \A id \in HandedOut : Absent(tasks, id) => Absent(tasks', id)]_vars

\* C11 witness: a DELETE of a task id that was handed out and has been
\* deleted is answered 404 while the caller still owns another task
C11_Witness ==
  \E s \in Slots :
    /\ reqs[s].pc = "done"
    /\ reqs[s].route = "delete"
    /\ reqs[s].res = Resp(404, "Task not found", NoToken, <<>>)
    /\ reqs[s].param \in HandedOut
    /\ Absent(tasks, reqs[s].param)
    /\ \E t \in tasks : t.userId = reqs[s].user

\* the values of the body are of the types the Task has: a status and a
\* priority of the enums when given, a due date that is a date
TypedCreate(body) ==
  /\ body.status \in Statuses \cup {Undefined}
  /\ body.priority \in Priorities \cup {Undefined}
  /\ ParseDate(body.dueDate) # InvalidDate

\* C12: a POST /tasks of an admitted caller whose title, description or
\* dueDate is missing (absent or empty) is answered 400 'Missing required fields' and stores
\* nothing; otherwise (status and priority, when given, being enum values and
\* dueDate a date) exactly one task is added, with a fresh _id, the caller as
\* owner, the given title, description and due date, the given status or
\* 'pending', the given priority or 'medium', and the answer is 201 with it.
C12_CreateValidatesAndDefaults ==
  [][\A s \in Slots :
       (HandlerStep(s) /\ reqs'[s].route = "create") =>
         LET r2 == reqs'[s]
             b == r2.body
             added == tasks' \ tasks
         IN  /\ r2.pc = "done"
             /\ tasks \subseteq tasks'
             /\ (Falsy(b.title) \/ Falsy(b.description) \/ Falsy(b.dueDate)) =>
                  /\ r2.res = Resp(400, "Missing required fields", NoToken, <<>>)
                  /\ tasks' = tasks
             /\ (~Falsy(b.title) /\ ~Falsy(b.description) /\ ~Falsy(b.dueDate)
                   /\ TypedCreate(b)) =>
                  /\ Cardinality(added) = 1
                  /\ r2.res.status = 201
                  /\ \A t \in added :
                       /\ r2.res.tasks = <<t>>
                       /\ Absent(tasks, t._id)
                       /\ t.userId = reqs[s].user
                       /\ t.title = b.title /\ t.description = b.description
                       /\ t.dueDate = ParseDate(b.dueDate)
                       /\ t.status = IF b.status = Undefined THEN "pending"
                                     ELSE b.status
                       /\ t.priority = IF b.priority = Undefined THEN "medium"
                                       ELSE b.priority]_vars

\* C12 witness: a task created without status and priority is stored as
\* pending and medium next to one created with both given
C12_Witness ==
  \E s \in Slots :
    /\ reqs[s].pc = "done"
    /\ reqs[s].route = "create"
    /\ reqs[s].res.status = 201
    /\ reqs[s].body = CreateBase
    /\ \E t \in tasks :
         /\ reqs[s].res.tasks = <<t>>
         /\ t.status = "pending" /\ t.priority = "medium"
    /\ \E t \in tasks : t.status = "completed" /\ t.priority = "high"

\* two emails that differ in letter case at most
SameButCase(a, b) ==
  /\ Len(a) = Len(b)
  /\ \A i \in 1..Len(a) : LowerChar(a[i]) = LowerChar(b[i])

\* the email without the blanks around it
Bare(e) == SelectSeq(e, LAMBDA c : c # " ")

\* POST /auth/login, or the first step of POST /auth/register, for slot s
ArrivalStep(s, route) == reqs[s].pc = "idle" /\ reqs'[s].route = route

\* C13: for a user in the collection and a request email that differs from
\* the user's email in letter case only, a login with the user's password is
\* answered 200 with a token for that user and a registration (name and
\* password given) is answered 400 'Email already in use'; when no user has
\* the request's email, whatever the case, the lookup raises nothing: the
\* login is answered 401 and the registration goes on to save.
C13_EmailLookupIgnoresCase ==
  [][\A s \in Slots :
       LET r2 == reqs'[s]
           same == {u \in users : SameButCase(u.email, r2.email)}
           none == \A u \in users : ~SameButCase(u.email, Bare(r2.email))
       IN  /\ (ArrivalStep(s, "login") /\ r2.password # "") =>
                /\ \A u \in same :
                     bcryptCompare(r2.password, u.password) =>
                       /\ r2.res.status = 200
                       /\ r2.res.token = jwtSign(u._id, JWT_SECRET, now)
                /\ (r2.email # <<>> /\ none) =>
                     r2.res = Resp(401, "Invalid credentials", NoToken, <<>>)
           /\ (ArrivalStep(s, "register") /\ r2.password # "" /\ r2.name # <<>>) =>
                /\ same # {} =>
                     /\ r2.pc = "done"
                     /\ r2.res = Resp(400, "Email already in use", NoToken, <<>>)
                /\ (r2.email # <<>> /\ none) => r2.pc = "reg_save"]_vars

\* C13 witness: the user registered as 'a' has logged in as 'A'
C13_Witness ==
  \E s \in Slots :
    /\ reqs[s].pc = "done"
    /\ reqs[s].route = "login"
    /\ reqs[s].email = <<"A">>
    /\ reqs[s].res.status = 200
    /\ \E u \in users : u.email = <<"a">> /\ u._id = reqs[s].res.token.sub

\* the users whose email is the request's, letter case and outer blanks aside
UsersWithEmail(email) == {u \in users : SameButCase(u.email, Bare(email))}

\* the stored value is a hash of this password, under some salt
HashOf(password, stored) == \E salt \in Salts : stored = bcryptHash(password, salt)

\* C14: a POST /auth/login with email and password is answered 401 'Invalid
\* credentials' without a token when no user has the email or the password is
\* not the one the user's hash was made of; it is answered 200 only when the
\* password is that one, and then with a token that verifies and whose
\* subject is that user's id; the step changes neither collection.
C14_LoginChecksCredentials ==
  [][\A s \in Slots :
       ArrivalStep(s, "login") =>
         LET r2 == reqs'[s]
             found == UsersWithEmail(r2.email)
             right == {u \in found : HashOf(r2.password, u.password)}
         IN  /\ r2.pc = "done"
             /\ users' = users /\ tasks' = tasks
             /\ nextUserId' = nextUserId /\ nextTaskId' = nextTaskId
             /\ (r2.email # <<>> /\ r2.password # "" /\ right = {}) =>
                  r2.res = Resp(401, "Invalid credentials", NoToken, <<>>)
             /\ r2.res.status = 200 =>
                  /\ right # {}
                  /\ \A u \in right : r2.res.token.sub = u._id
                  /\ jwtVerify(r2.res.token, JWT_SECRET, now) = "ok"
             /\ r2.res.status # 200 => r2.res.token = NoToken]_vars

\* C14 witness: a login with the email of a registered user and a password
\* that is not theirs has been answered 401
C14_Witness ==
  \E s \in Slots :
    /\ reqs[s].pc = "done"
    /\ reqs[s].route = "login"
    /\ reqs[s].password = "wrong12"
    /\ UsersWithEmail(reqs[s].email) # {}
    /\ reqs[s].res = Resp(401, "Invalid credentials", NoToken, <<>>)

\* the token carries the server's signature over its claims
Signed(t) == t.sig = Mac(JWT_SECRET, t.sub, t.iat, t.exp)

\* C15: a protected request whose token is correctly signed and past its
\* expiry is answered differently from a request whose token does not carry
\* the server's signature: the client can tell TokenExpired from
\* TokenMalformed.
C15_ExpiredDistinctFromMalformed ==
  [][\A s \in Slots :
       (GuardStep(s) /\ reqs'[s].token # NoToken /\ Signed(reqs'[s].token)
          /\ now >= reqs'[s].token.exp) =>
         \A forged \in Forged :
           reqs'[s].res # authenticateToken(forged).res]_vars

\* the last store call the request made was rejected by the store
StoreFailed(r) ==
  /\ r.ops # <<>>
  /\ r.ops[Len(r.ops)] \in {"User.findById throws", "User.findOne throws"}

\* C16: a request during which a store call failed, in a handler or in the
\* guard's lookup of the user, is answered 500 with a generic message, and
\* never with an authentication failure or another client error.
C16_StoreFailureIsInternalError ==
  \A s \in Slots :
    (reqs[s].pc = "done" /\ StoreFailed(reqs[s])) =>
      /\ reqs[s].res.status = 500
      /\ reqs[s].res.tasks = <<>> /\ reqs[s].res.token = NoToken

\* C17: a POST /auth/register that is rejected because a field is missing or
\* malformed is answered 400: in particular one whose name, email and
\* password are present and whose password is shorter than the schema's
\* minimum is answered 400, not 500, and no user is created for it.
C17_MalformedRegisterIsValidationError ==
  \A s \in Slots :
    (reqs[s].pc = "done" /\ reqs[s].route = "register"
       /\ ~WellFormedRegister(reqs[s])) =>
      /\ reqs[s].res.status = 400
      /\ reqs[s].ops # <<>> =>
           reqs[s].ops[Len(reqs[s].ops)] # "User.save" \/ HoldsEmail(reqs[s]) = {}

\* C18: every task has one owner (one document per _id, owned by a user of
\* the collection); a task enters the collection only by a POST /tasks step
\* and its owner is the identity the guard resolved for that request from
\* its token, whatever the body names; no step of any request changes the
\* owner of a task that is in the collection.
C18_OwnerIsCreatorAndNeverChanges ==
  [][/\ \A t, u \in tasks' : t._id = u._id => t = u
     /\ \A t \in tasks' : UserFindById(t.userId) # {}
     /\ \A t \in tasks, u \in tasks' : t._id = u._id => t.userId = u.userId
     /\ \A u \in tasks' :
          Absent(tasks, u._id) =>
            \E s \in Slots :
              /\ HandlerStep(s)
              /\ reqs'[s].route = "create"
              /\ u.userId = reqs[s].user
              /\ reqs[s].user = reqs[s].token.sub
              /\ Signed(reqs[s].token)]_vars

\* C18 witness: user 1 owns two tasks, one of them after a PUT by user 1
\* whose body names user 2 as the owner
C18_Witness ==
  \E s \in Slots :
    /\ reqs[s].pc = "done"
    /\ reqs[s].route = "update"
    /\ reqs[s].res.status = 200
    /\ reqs[s].body.userId = 2
    /\ reqs[s].user = 1
    /\ \E t \in tasks : t._id = reqs[s].param /\ t.userId = 1
    /\ \E t \in tasks : t._id # reqs[s].param /\ t.userId = 1

\* the reminder request in slot s takes its second step, the save
SaveStep(s) == reqs[s].pc = "rem_save" /\ reqs'[s] # reqs[s]

\* C19: a task that a DELETE answered 200 has removed is in no later state
\* of the collection: the save of a reminder request that loaded the task
\* before the DELETE writes nothing; and the save of a reminder request
\* changes nothing but reminderDate of the stored task, so that what a PUT
\* wrote between the findOne and the save is still there after the save.
C19_ReminderSaveNeitherRevivesNorReverts ==
  [][/\ \A id \in HandedOut : Absent(tasks, id) => Absent(tasks', id)
     /\ \A s \in Slots :
          (HandlerStep(s) /\ reqs'[s].route = "delete"
             /\ reqs'[s].res.status = 200) => Absent(tasks', reqs'[s].param)
     /\ \A s \in Slots :
          SaveStep(s) =>
            LET loaded == reqs[s].doc
                stored == {t \in tasks : t._id = loaded._id}
            IN  /\ stored = {} => tasks' = tasks
                /\ \A t \in stored :
                     \E date \in {t.reminderDate, loaded.reminderDate} :
                       tasks' = (tasks \ {t}) \cup {[t EXCEPT !.reminderDate = date]}]_vars

\* C19 witness: a reminder save was answered 200 for a task whose status a
\* PUT had set to completed after the reminder request had loaded it as
\* pending; the stored task is completed and has the reminder
C19_Witness ==
  \E s \in Slots :
    /\ reqs[s].pc = "done"
    /\ reqs[s].route = "reminder"
    /\ reqs[s].res.status = 200
    /\ reqs[s].doc.status = "pending"
    /\ \E t \in tasks :
         /\ t._id = reqs[s].doc._id
         /\ t.status = "completed"
         /\ t.reminderDate = reqs[s].doc.reminderDate
         /\ t.reminderDate # NoDate


\* the passwords that requests carry
Plaintexts == RegisterPasswords \cup LoginPasswords

\* C20: the password field of a user document is, from the save that
\* inserts it on, the hash (under one salt, applied once) of the password of
\* the register request that saved it; it is never a plaintext password, and
\* no later step changes a stored user document.
C20_StoredPasswordIsHashedOnce ==
  [][/\ \A u \in users' : u.password \notin Plaintexts
     /\ users \subseteq users'
     /\ \A u \in users' \ users :
          \E s \in Slots :
            /\ reqs[s].pc = "reg_save"
            /\ reqs'[s].pc = "done"
            /\ \E salt \in Salts :
                 u.password = bcryptHash(reqs[s].password, salt)
            /\ \A salt \in Salts :
                 u.password # bcryptHash(bcryptHash(reqs[s].password, salt), salt)]_vars

\* C20 witness: two users registered with the same password hold different
\* hashes of it, and one of them has been answered 201
C20_Witness ==
  /\ \E s \in Slots :
       /\ reqs[s].pc = "done"
       /\ reqs[s].route = "register"
       /\ reqs[s].res.status = 201
       /\ reqs[s].password = "secret1"
  /\ \E u, v \in users :
       /\ u.password = bcryptHash("secret1", "s1")
       /\ v.password = bcryptHash("secret1", "s2")

====
